---- MODULE Spec2Model ----
(***************************************************************************)
(* pybind11/embed.h: embedding the interpreter.                            *)
(*                                                                         *)
(* State machine of the embedding layer: the built-in-module table         *)
(* (embedded_module), the interpreter lifecycle (initialize_interpreter,   *)
(* finalize_interpreter), the argument encoder (set_interpreter_argv,      *)
(* widen_chars) and the scope guard (scoped_interpreter).                  *)
(***************************************************************************)
EXTENDS Integers, Sequences, FiniteSets, TLC

(***************************************************************************)
(* Bounds of the model.                                                    *)
(***************************************************************************)
MaxOps == 6         \* host operations in one behaviour
MaxGuards == 3      \* scoped_interpreter objects the host may create
MaxArgs == 3        \* longest host argument array
MaxInittab == 2     \* entries the built-in-module table may receive

(***************************************************************************)
(* Build configuration: PY_VERSION_HEX and the thresholds the              *)
(* preprocessor conditions of embed.h compare it with.                     *)
(***************************************************************************)
HEX_020606f0 == 33949424
HEX_030103f0 == 50398192
HEX_030500f0 == 50659568

\* 2.6.5, 2.7.18, 3.0.1, 3.4.0, 3.8.0
PyVersions == {33949168, 34018032, 50332144, 50594032, 50856176}

\* PY_MAJOR_VERSION is the top byte of PY_VERSION_HEX
PY_MAJOR_VERSION(hex) == hex \div 16777216

\* #if PY_VERSION_HEX >= 0x030500f0 (wide_char_arg_deleter, widen_chars)
HasDecodeLocale(hex) == hex >= HEX_030500f0

\* #if PY_VERSION_HEX < 0x020606f0 || (PY_MAJOR_VERSION == 3 && PY_VERSION_HEX < 0x030103f0)
LacksSetArgvEx(hex) ==
    hex < HEX_020606f0 \/ (PY_MAJOR_VERSION(hex) = 3 /\ hex < HEX_030103f0)

(***************************************************************************)
(* Host data.  A host C string is a sequence of bytes: "a" and "a\377",     *)
(* whose second byte has no valid conversion.                              *)
(***************************************************************************)
HostStrings == {<<97>>, <<97, 255>>}
\* A host argument array: the null pointer, or an array of host strings.
NullArgv == [null |-> TRUE, elems |-> <<>>]
ArgvOf(strings) == [null |-> FALSE, elems |-> strings]

RECURSIVE SeqsUpTo(_, _)
SeqsUpTo(S, n) ==
    IF n = 0 THEN {<<>>}
    ELSE LET shorter == SeqsUpTo(S, n - 1)
         IN shorter \cup {Append(s, x) : s \in {t \in shorter : Len(t) = n - 1}, x \in S}

ArgvValues == {NullArgv} \cup {ArgvOf(s) : s \in SeqsUpTo(HostStrings, MaxArgs)}
ArgcValues == -1 .. MaxArgs
ModuleNames == {"m1", "m2"}
GuardIds == 1 .. MaxGuards
Cells == {"local", "foreign"}

DefaultPath == <<"stdlib", "site">>    \* sys.path as Py_InitializeEx leaves it
ScriptDir == "cwd"                    \* entry PySys_SetArgv prepends to sys.path

VARIABLES
    py_version,        \* PY_VERSION_HEX of the build
    broken_mbstowcs,   \* HAVE_BROKEN_MBSTOWCS of the build
    initialized,       \* Py_IsInitialized()
    inittab,           \* PyImport_Inittab: names appended by PyImport_AppendInittab
    builtin_modules,   \* built-in modules the running interpreter can import
    signal_handlers,   \* initsigs given to Py_InitializeEx
    sys_argv,          \* vector last given to PySys_SetArgv / PySys_SetArgvEx
    sys_argv_set,      \* TRUE when the running interpreter's argv was set
    sys_path,          \* sys.path of the running interpreter
    internals_pp,      \* get_internals_pp(): "null" or the cell it points to
    cell,              \* contents of each internals cell: 0 or an object id
    allocated,         \* internals objects currently allocated
    next_obj,          \* next internals object id
    builtins_id,       \* builtins[PYBIND11_INTERNALS_ID]
    gstate,            \* scoped_interpreter objects: "none", "live", "dead"
    is_valid,          \* scoped_interpreter::is_valid
    moved_from,        \* guard a guard was move-constructed from (0: by arguments)
    crashed,           \* the process hit undefined behaviour and died
    nops,              \* host operations so far
    lastOp,            \* last host operation, its arguments and how it ended
    initCalls,         \* calls of Py_InitializeEx
    encodeCalls,       \* calls of set_interpreter_argv
    setArgvCalls,      \* calls of PySys_SetArgv / PySys_SetArgvEx
    stopCalls,         \* calls of finalize_interpreter
    stopUninit,        \* calls of finalize_interpreter made while not initialized
    at_finalize,       \* the captured cell pointer and the cells and objects as
                       \* the last Py_Finalize of a running interpreter began
    argv_bufs,         \* buffers the last set_interpreter_argv call allocated,
                       \* and the releases made by the time it returned
    wrapper_result     \* how the last call of an initializer wrapper ended

vars == <<py_version, broken_mbstowcs, initialized, inittab, builtin_modules,
          signal_handlers, sys_argv, sys_argv_set, sys_path, internals_pp, cell,
          allocated, next_obj, builtins_id, gstate, is_valid, moved_from, crashed,
          nops, lastOp, initCalls, encodeCalls, setArgvCalls, stopCalls, stopUninit,
          at_finalize, argv_bufs, wrapper_result>>

buildVars == <<py_version, broken_mbstowcs>>
tableVars == <<inittab>>
runtimeVars == <<initialized, builtin_modules, signal_handlers, sys_argv,
                 sys_argv_set, sys_path, initCalls, encodeCalls, setArgvCalls,
                 argv_bufs>>
internalsVars == <<internals_pp, cell, allocated, next_obj, builtins_id>>
guardVars == <<gstate, is_valid, moved_from>>
stopVars == <<stopCalls, stopUninit, crashed, at_finalize>>
importVars == <<wrapper_result>>

NoBufs == [allocs |-> {}, frees |-> <<>>]
NoWrapperCall == [returned |-> FALSE, handle |-> "none", error |-> "none"]

NoArg == [none |-> TRUE]

Init ==
    /\ py_version \in PyVersions
    /\ broken_mbstowcs \in BOOLEAN
    /\ (broken_mbstowcs => (PY_MAJOR_VERSION(py_version) = 3 /\ ~HasDecodeLocale(py_version)))
    /\ initialized = FALSE
    /\ inittab = <<>>
    /\ builtin_modules = {}
    /\ signal_handlers = FALSE
    /\ sys_argv = <<>>
    /\ sys_argv_set = FALSE
    /\ sys_path = <<>>
    /\ internals_pp = "null"
    /\ cell = [c \in Cells |-> 0]
    /\ allocated = {}
    /\ next_obj = 1
    /\ builtins_id = "absent"
    /\ gstate = [g \in GuardIds |-> "none"]
    /\ is_valid = [g \in GuardIds |-> FALSE]
    /\ moved_from = [g \in GuardIds |-> 0]
    /\ crashed = FALSE
    /\ nops = 0
    /\ lastOp = [op |-> "none", arg |-> NoArg, result |-> "ok"]
    /\ initCalls = 0
    /\ encodeCalls = 0
    /\ setArgvCalls = 0
    /\ stopCalls = 0
    /\ stopUninit = 0
    /\ at_finalize = [captured |-> "null", cell |-> [c \in Cells |-> 0], allocated |-> {}]
    /\ argv_bufs = NoBufs
    /\ wrapper_result = NoWrapperCall

\* A host operation can be issued: the process is alive and the bound allows it.
CanCall == ~crashed /\ nops < MaxOps

Called(op, arg, result) ==
    /\ nops' = nops + 1
    /\ lastOp' = [op |-> op, arg |-> arg, result |-> result]

(***************************************************************************)
(* embedded_module::embedded_module(name, init)                            *)
(***************************************************************************)
\* Variant: the lifecycle check left out.
embedded_module_rejects_unchecked(isInit) == FALSE

\* Variant: an interpreter that ran once keeps registration closed.
embedded_module_rejects_once_started(isInit) == isInit \/ initCalls > 0

\* if (Py_IsInitialized()) pybind11_fail(...)
embedded_module_rejects(isInit) == isInit

\* PyImport_AppendInittab: 0 and the entry appended, or -1 and the table as it was
PyImport_AppendInittab(table, name, memOK) ==
    IF memOK THEN [result |-> 0, table |-> Append(table, name)]
    ELSE [result |-> -1, table |-> table]

\* Variant: the result of the append is not looked at.
append_failed_ignored(result) == FALSE

\* if (result == -1) pybind11_fail("Insufficient memory to add a new module")
append_failed(result) == result = -1

Register(name, memOK) ==
    /\ CanCall
    /\ initialized \/ Len(inittab) < MaxInittab
    /\ IF embedded_module_rejects(initialized)
       THEN /\ Called("register", [name |-> name, memOK |-> memOK], "IllegalState")
            /\ UNCHANGED inittab
       ELSE LET r == PyImport_AppendInittab(inittab, name, memOK)
            IN /\ inittab' = r.table
               /\ IF append_failed(r.result)
                  THEN Called("register", [name |-> name, memOK |-> memOK],
                              "ResourceExhausted")
                  ELSE Called("register", [name |-> name, memOK |-> memOK], "ok")
    /\ UNCHANGED <<buildVars, importVars, runtimeVars, internalsVars, guardVars, stopVars>>

(***************************************************************************)
(* Argument encoder: widen_chars and set_interpreter_argv                  *)
(***************************************************************************)
\* A string pointer handed on: char* (Narrow), wchar_t* (Wide), or a null wchar_t*.
NullW == [null |-> TRUE, wide |-> TRUE, chars |-> <<>>]
Narrow(s) == [null |-> FALSE, wide |-> FALSE, chars |-> s]
Wide(s) == [null |-> FALSE, wide |-> TRUE, chars |-> s]

\* A byte outside ASCII starts no valid multibyte sequence.
ValidByte(b) == b < 128
Convertible(arg) == \A i \in DOMAIN arg : ValidByte(arg[i])

strlen(arg) == Len(arg)

\* mbstowcs(nullptr, arg, 0): the number of wide characters, or (size_t)-1
mbstowcs_count(arg) == IF Convertible(arg) THEN Len(arg) ELSE -1

\* The bytes before the first one that has no conversion.
RECURSIVE ValidPrefix(_)
ValidPrefix(arg) ==
    IF arg = <<>> \/ ~ValidByte(Head(arg)) THEN <<>>
    ELSE <<Head(arg)>> \o ValidPrefix(Tail(arg))

\* What an unwritten tail of a new wchar_t[] buffer may read as.
IndeterminateTails == {<<>>, <<63>>}

\* mbstowcs(widened_arg, arg, count + 1): the buffer afterwards
mbstowcs_fill(arg) ==
    IF Convertible(arg) THEN {Wide(arg)}
    ELSE {Wide(ValidPrefix(arg) \o t) : t \in IndeterminateTails}

\* Py_DecodeLocale(arg, nullptr): NULL on a decoding error
Py_DecodeLocale(arg) == IF Convertible(arg) THEN Wide(arg) ELSE NullW

\* widen_chars(safe_arg): the values it may return
widen_chars(safe_arg, hex, broken) ==
    IF HasDecodeLocale(hex) THEN {Py_DecodeLocale(safe_arg)}
    ELSE LET count == IF broken THEN strlen(safe_arg) ELSE mbstowcs_count(safe_arg)
         IN IF count # -1 THEN mbstowcs_fill(safe_arg) ELSE {NullW}

\* Variant: only the null array is special-cased.
NeedsFallback_null_only(argc, argv) == argv.null

\* if (nullptr == argv || argc <= 0)
NeedsFallback(argc, argv) == argv.null \/ argc <= 0

\* safe_argv and argc after the special case of lines 128-133
SafeArgv(argc, argv) == IF NeedsFallback(argc, argv) THEN << <<>> >> ELSE argv.elems
SafeArgc(argc, argv) == IF NeedsFallback(argc, argv) THEN 1 ELSE argc

\* The loop of lines 139-147 from index ii on: the ways it may end, each with
\* the entries of widened_argv it filled and whether it hit the return of
\* line 144.
RECURSIVE WidenLoop(_, _, _, _, _)
WidenLoop(safe_argv, argv_size, ii, hex, broken) ==
    IF ii > argv_size THEN {[gave_up |-> FALSE, vec |-> <<>>]}
    ELSE LET heads == widen_chars(safe_argv[ii], hex, broken)
             rests == WidenLoop(safe_argv, argv_size, ii + 1, hex, broken)
         IN {[gave_up |-> TRUE, vec |-> <<>>] : h \in {x \in heads : x.null}}
            \cup {[gave_up |-> r.gave_up, vec |-> <<h>> \o r.vec] :
                    h \in {x \in heads : ~x.null}, r \in rests}

\* pysys_argv: the widened vector on Python 3, safe_argv itself on Python 2
PysysArgv(argc, argv, hex, broken) ==
    LET safe_argv == SafeArgv(argc, argv)
        n == SafeArgc(argc, argv)
    IN IF PY_MAJOR_VERSION(hex) >= 3
       THEN WidenLoop(safe_argv, n, 1, hex, broken)
       ELSE {[gave_up |-> FALSE, vec |-> [i \in 1 .. n |-> Narrow(safe_argv[i])]]}

\* PySys_SetArgvEx(argc, argv, updatepath): sys.path afterwards
PySys_SetArgvEx_path(path, updatepath) ==
    IF updatepath = 1 THEN <<ScriptDir>> \o path ELSE path

\* module::import("sys").attr("path").attr("pop")()
list_pop(path) == SubSeq(path, 1, Len(path) - 1)

\* Lines 155-164: sys.path after the set-argv primitive of this build ran
SetArgvPath(path, add_current_dir_to_path, hex) ==
    IF LacksSetArgvEx(hex)
    THEN LET after == PySys_SetArgvEx_path(path, 1)
         IN IF ~add_current_dir_to_path THEN list_pop(after) ELSE after
    ELSE PySys_SetArgvEx_path(path, IF add_current_dir_to_path THEN 1 ELSE 0)

\* A deallocation routine is the one that goes with an allocation routine.
Matches(by, with) ==
    \/ by = "new[]" /\ with = "delete[]"
    \/ by = "PyMem_RawMalloc" /\ with = "PyMem_RawFree"

\* How widen_chars gets the buffer it returns: Py_DecodeLocale takes it from
\* PyMem_RawMalloc (line 104), the other builds use new wchar_t[] (line 114).
widen_chars_alloc(hex) == IF HasDecodeLocale(hex) THEN "PyMem_RawMalloc" ELSE "new[]"

\* Variant: the deleter uses delete[] on every build.
wide_char_arg_deleter_delete_only(hex) == "delete[]"

\* wide_char_arg_deleter::operator()
wide_char_arg_deleter(hex) == IF hex >= HEX_030500f0 THEN "PyMem_RawFree" ELSE "delete[]"

\* The deleter of std::unique_ptr<T[]>
default_delete == "delete[]"

Buf(owner, ii, by) == [owner |-> owner, ii |-> ii, by |-> by]
Release(owner, ii, with) == [owner |-> owner, ii |-> ii, with |-> with]

\* The buffers set_interpreter_argv allocates when its loop ends as
\* pysys_argv: the fallback vector and its string (lines 129-130),
\* widened_argv (line 137) and one buffer for each argument widen_chars
\* converted (line 140).
EncoderAllocs(argc, argv, hex, pysys_argv) ==
    (IF NeedsFallback(argc, argv)
     THEN {Buf("argv_guard", 0, "new[]"), Buf("argv_inner_guard", 0, "new[]")}
     ELSE {})
    \cup
    (IF PY_MAJOR_VERSION(hex) >= 3
     THEN {Buf("widened_argv", 0, "new[]")}
          \cup {Buf("widened_argv_entries", ii, widen_chars_alloc(hex)) :
                  ii \in 1 .. Len(pysys_argv.vec)}
     ELSE {})

\* The releases made when set_interpreter_argv returns, at line 144 or at its
\* end: every owner declared in lines 126-138 that holds a buffer calls its
\* deleter, the owners declared last first.
EncoderReleases(argc, argv, hex, pysys_argv) ==
    (IF PY_MAJOR_VERSION(hex) >= 3
     THEN [ii \in 1 .. Len(pysys_argv.vec) |->
             Release("widened_argv_entries", ii, wide_char_arg_deleter(hex))]
          \o <<Release("widened_argv", 0, default_delete)>>
     ELSE <<>>)
    \o
    (IF NeedsFallback(argc, argv)
     THEN <<Release("argv_inner_guard", 0, default_delete),
            Release("argv_guard", 0, default_delete)>>
     ELSE <<>>)

\* set_interpreter_argv(argc, argv, add_current_dir_to_path) as an action on
\* the interpreter Py_InitializeEx has just created.
set_interpreter_argv(argc, argv, add_current_dir_to_path) ==
    /\ encodeCalls' = encodeCalls + 1
    /\ \E pysys_argv \in PysysArgv(argc, argv, py_version, broken_mbstowcs) :
         /\ argv_bufs' = [allocs |-> EncoderAllocs(argc, argv, py_version, pysys_argv),
                          frees |-> EncoderReleases(argc, argv, py_version, pysys_argv)]
         /\ IF pysys_argv.gave_up
            THEN /\ sys_argv' = <<>>
                 /\ sys_argv_set' = FALSE
                 /\ sys_path' = DefaultPath
                 /\ UNCHANGED setArgvCalls
            ELSE /\ sys_argv' = pysys_argv.vec
                 /\ sys_argv_set' = TRUE
                 /\ sys_path' = SetArgvPath(DefaultPath, add_current_dir_to_path,
                                            py_version)
                 /\ setArgvCalls' = setArgvCalls + 1

(***************************************************************************)
(* initialize_interpreter(init_signal_handlers, argc, argv,                *)
(*                        add_current_dir_to_path)                         *)
(***************************************************************************)
Range(s) == {s[i] : i \in DOMAIN s}

\* Variant: the lifecycle check left out.
initialize_interpreter_rejects_unchecked(isInit) == FALSE

\* if (Py_IsInitialized()) pybind11_fail("The interpreter is already running")
initialize_interpreter_rejects(isInit) == isInit

\* Py_InitializeEx(init_signal_handlers ? 1 : 0)
Py_InitializeEx(init_signal_handlers) ==
    /\ initialized' = TRUE
    /\ signal_handlers' = init_signal_handlers
    /\ builtin_modules' = Range(inittab)
    /\ initCalls' = initCalls + 1

\* The arguments a host may pass: argv is null or holds at least argc entries.
StartInputs ==
    {in \in [sig : BOOLEAN, argc : ArgcValues, argv : ArgvValues, add : BOOLEAN] :
        in.argv.null \/ in.argc <= Len(in.argv.elems)}

\* The default arguments of lines 188-191
DefaultArgs == [sig |-> TRUE, argc |-> 0, argv |-> NullArgv, add |-> TRUE]

\* The arguments the host passes when the lifecycle is what is explored: the
\* defaults, or a program name and no signal handlers nor search-path entry.
LifecycleInputs ==
    {DefaultArgs,
     [sig |-> FALSE, argc |-> 1, argv |-> ArgvOf(<< <<97>> >>), add |-> FALSE]}

\* The body of initialize_interpreter, called with arguments in for host
\* operation op.
initialize_interpreter(in, op, arg) ==
    IF initialize_interpreter_rejects(initialized)
    THEN /\ Called(op, arg, "IllegalState")
         /\ UNCHANGED runtimeVars
    ELSE /\ Called(op, arg, "ok")
         /\ Py_InitializeEx(in.sig)
         /\ set_interpreter_argv(in.argc, in.argv, in.add)

Start(in) ==
    /\ CanCall
    /\ initialize_interpreter(in, "start", in)
    /\ UNCHANGED <<buildVars, importVars, tableVars, internalsVars, guardVars, stopVars>>

(***************************************************************************)
(* PYBIND11_EMBEDDED_MODULE(name, variable): the wrapper the interpreter   *)
(* calls when the module is imported                                       *)
(***************************************************************************)
\* How the body the user wrote may end: it returns, or it throws
\* error_already_set, a class derived from std::exception, or anything else
\* C++ can throw.
InitBodies == {"returns", "error_already_set", "std_exception", "other_type"}

\* The handlers of lines 57 and 60
wrapper_catches(thrown) == thrown \in {"error_already_set", "std_exception"}

\* pybind11_init_wrapper_<name>(): the handle it returns and the error
\* indicator it sets, or no return when the exception leaves it.
pybind11_init_wrapper(body) ==
    IF body = "returns"
    THEN [returned |-> TRUE, handle |-> "module", error |-> "none"]
    ELSE IF wrapper_catches(body)
    THEN [returned |-> TRUE, handle |-> "null", error |-> "ImportError"]
    ELSE NoWrapperCall

\* The running interpreter imports built-in module name and calls its
\* wrapper.  An exception that leaves the wrapper unwinds into the
\* interpreter's C frames: the process dies, or the exception reaches the
\* host code that asked for the import.
Import(name, body) ==
    /\ CanCall
    /\ initialized
    /\ name \in builtin_modules
    /\ LET r == pybind11_init_wrapper(body)
           arg == [name |-> name, body |-> body]
       IN /\ wrapper_result' = r
          /\ IF r.returned
             THEN /\ Called("import", arg, IF r.handle = "null" THEN "ImportError" ELSE "ok")
                  /\ UNCHANGED crashed
             ELSE \/ /\ crashed' = TRUE
                     /\ Called("import", arg, "crash")
                  \/ /\ crashed' = FALSE
                     /\ Called("import", arg, "HostException")
    /\ UNCHANGED <<stopCalls, stopUninit, at_finalize>>
    /\ UNCHANGED <<buildVars, tableVars, runtimeVars, internalsVars, guardVars>>

(***************************************************************************)
(* The internals handle: get_internals_pp() and get_internals() of the     *)
(* binding layer, and what other holders stash in the built-in namespace.  *)
(***************************************************************************)
IsCapsule(entry) == entry \in Cells

\* get_internals(): return the internals object, creating it when there is
\* none.  st holds internals_pp, cell, allocated, next_obj and builtins_id.
get_internals(st) ==
    IF st.internals_pp # "null" /\ st.cell[st.internals_pp] # 0 THEN st
    ELSE IF IsCapsule(st.builtins_id)
    THEN [st EXCEPT !.internals_pp = st.builtins_id]
    ELSE LET pp == IF st.internals_pp = "null" THEN "local" ELSE st.internals_pp
         IN [internals_pp |-> pp,
             cell |-> [st.cell EXCEPT ![pp] = st.next_obj],
             allocated |-> st.allocated \cup {st.next_obj},
             next_obj |-> st.next_obj + 1,
             builtins_id |-> pp]

InternalsState ==
    [internals_pp |-> internals_pp, cell |-> cell, allocated |-> allocated,
     next_obj |-> next_obj, builtins_id |-> builtins_id]

SetInternals(st) ==
    /\ internals_pp' = st.internals_pp
    /\ cell' = st.cell
    /\ allocated' = st.allocated
    /\ next_obj' = st.next_obj
    /\ builtins_id' = st.builtins_id

\* Host work in a running interpreter that needs the internals.
GetInternals ==
    /\ CanCall
    /\ initialized
    /\ SetInternals(get_internals(InternalsState))
    /\ Called("get_internals", NoArg, "ok")
    /\ UNCHANGED <<buildVars, importVars, tableVars, runtimeVars, guardVars, stopVars>>

\* Another holder puts an entry under the internals identifier of a running
\* interpreter: a capsule of its own cell and object, or some other object.
Stash(kind) ==
    /\ CanCall
    /\ initialized
    /\ builtins_id = "absent"
    /\ IF kind = "capsule"
       THEN /\ builtins_id' = "foreign"
            /\ cell' = [cell EXCEPT !["foreign"] = next_obj]
            /\ allocated' = allocated \cup {next_obj}
            /\ next_obj' = next_obj + 1
       ELSE /\ builtins_id' = "noncapsule"
            /\ UNCHANGED <<cell, allocated, next_obj>>
    /\ Called("stash", [kind |-> kind], "ok")
    /\ UNCHANGED <<internals_pp, buildVars, importVars, tableVars, runtimeVars, guardVars, stopVars>>

(***************************************************************************)
(* finalize_interpreter()                                                  *)
(***************************************************************************)
\* Variant: the built-in namespace is not consulted.
CapturedCell_lookup_only(pp, builtins) == pp

\* Lines 242-245: the cell pointer captured before Py_Finalize
CapturedCell(pp, builtins) == IF IsCapsule(builtins) THEN builtins ELSE pp

\* Variant: finalize_interpreter does not call Py_Finalize.
Py_Finalize_omitted == UNCHANGED runtimeVars

\* Py_Finalize(): the interpreter and its namespaces are gone afterwards
Py_Finalize ==
    /\ initialized' = FALSE
    /\ builtin_modules' = {}
    /\ signal_handlers' = FALSE
    /\ sys_argv' = <<>>
    /\ sys_argv_set' = FALSE
    /\ sys_path' = <<>>
    /\ UNCHANGED <<initCalls, encodeCalls, setArgvCalls, argv_bufs>>

\* Lines 249-252 on the internals state st left by Py_Finalize
ReleaseInternals(st, internals_ptr_ptr) ==
    IF internals_ptr_ptr # "null"
    THEN [st EXCEPT !.allocated = st.allocated \ {st.cell[internals_ptr_ptr]},
                    !.cell = [st.cell EXCEPT ![internals_ptr_ptr] = 0]]
    ELSE st

\* Variant: the internals are released before Py_Finalize is called.
release_after_finalize_swapped == FALSE

\* Py_Finalize() of line 247 precedes the release of lines 249-252.
release_after_finalize == TRUE

\* finalize_interpreter() called for host operation op.  On an interpreter
\* that is not initialized PyEval_GetBuiltins has no thread state to read:
\* the process dies, or the call finds no namespace and carries on.
finalize_interpreter(op, arg) ==
    /\ stopCalls' = stopCalls + 1
    /\ IF initialized
       THEN \E lazy \in BOOLEAN :
              LET internals_ptr_ptr == CapturedCell(internals_pp, builtins_id)
                  before == IF release_after_finalize THEN InternalsState
                            ELSE ReleaseInternals(InternalsState, internals_ptr_ptr)
                  during == IF lazy THEN get_internals(before) ELSE before
                  after == [during EXCEPT !.builtins_id = "absent"]
                  final == IF release_after_finalize
                           THEN ReleaseInternals(after, internals_ptr_ptr)
                           ELSE after
              IN /\ Py_Finalize
                 /\ at_finalize' = [captured |-> internals_ptr_ptr,
                                    cell |-> before.cell,
                                    allocated |-> before.allocated]
                 /\ SetInternals(final)
                 /\ Called(op, arg, "ok")
                 /\ UNCHANGED <<stopUninit, crashed>>
       ELSE /\ stopUninit' = stopUninit + 1
            /\ UNCHANGED at_finalize
            /\ \/ /\ crashed' = TRUE
                  /\ Called(op, arg, "crash")
                  /\ UNCHANGED <<runtimeVars, internalsVars>>
               \/ /\ crashed' = FALSE
                  /\ Called(op, arg, "ok")
                  /\ SetInternals(ReleaseInternals(InternalsState,
                                     CapturedCell(internals_pp, "absent")))
                  /\ UNCHANGED runtimeVars

Stop ==
    /\ CanCall
    /\ finalize_interpreter("stop", NoArg)
    /\ UNCHANGED <<buildVars, importVars, tableVars, guardVars>>

(***************************************************************************)
(* scoped_interpreter                                                      *)
(***************************************************************************)
\* The next object the host creates.
FreeGuards == {g \in GuardIds : gstate[g] = "none"}
NextGuard(g) == g \in FreeGuards /\ \A h \in FreeGuards : g <= h

\* bool is_valid = true;  (the constructors do not assign their own flag)
ctor_is_valid == TRUE

\* Variant: the new object starts out not owning.
move_ctor_is_valid_cleared(other_is_valid) == FALSE

\* Variant: the source keeps its flag.
move_ctor_other_is_valid_kept(other_is_valid) == other_is_valid

\* scoped_interpreter(scoped_interpreter &&other) noexcept { other.is_valid = false; }
move_ctor_is_valid(other_is_valid) == TRUE
move_ctor_other_is_valid(other_is_valid) == FALSE

\* Variant: the destructor finalizes whatever the flag says.
dtor_finalizes_always(valid) == TRUE

\* ~scoped_interpreter(): if (is_valid) finalize_interpreter();
dtor_finalizes(valid) == valid

\* Variant: the object exists although initialize_interpreter raised.
ctor_completes_always(rejected) == TRUE

\* The constructor body is the call of initialize_interpreter: when that
\* raises, no object comes to exist and no destructor will run for it.
ctor_completes(rejected) == ~rejected

Construct(g, in) ==
    /\ CanCall
    /\ NextGuard(g)
    /\ initialize_interpreter(in, "construct", [g |-> g, in |-> in])
    /\ IF ~ctor_completes(initialize_interpreter_rejects(initialized))
       THEN UNCHANGED guardVars
       ELSE /\ gstate' = [gstate EXCEPT ![g] = "live"]
            /\ is_valid' = [is_valid EXCEPT ![g] = ctor_is_valid]
            /\ UNCHANGED moved_from
    /\ UNCHANGED <<buildVars, importVars, tableVars, internalsVars, stopVars>>

MoveConstruct(g, other) ==
    /\ CanCall
    /\ NextGuard(g)
    /\ gstate[other] = "live"
    /\ gstate' = [gstate EXCEPT ![g] = "live"]
    /\ is_valid' = [is_valid EXCEPT ![g] = move_ctor_is_valid(is_valid[other]),
                                    ![other] = move_ctor_other_is_valid(is_valid[other])]
    /\ moved_from' = [moved_from EXCEPT ![g] = other]
    /\ Called("move", [g |-> g, other |-> other], "ok")
    /\ UNCHANGED <<buildVars, importVars, tableVars, runtimeVars, internalsVars, stopVars>>

Destroy(g) ==
    /\ CanCall
    /\ gstate[g] = "live"
    /\ gstate' = [gstate EXCEPT ![g] = "dead"]
    /\ UNCHANGED <<is_valid, moved_from>>
    /\ IF dtor_finalizes(is_valid[g])
       THEN finalize_interpreter("destroy", [g |-> g])
       ELSE /\ Called("destroy", [g |-> g], "ok")
            /\ UNCHANGED <<runtimeVars, internalsVars, stopVars>>
    /\ UNCHANGED <<buildVars, importVars, tableVars>>

(***************************************************************************)
(* Specifications                                                          *)
(***************************************************************************)
DoRegister == \E name \in ModuleNames, memOK \in BOOLEAN : Register(name, memOK)
DoStart == \E in \in LifecycleInputs : Start(in)
DoStartAny == \E in \in StartInputs : ~initialized /\ Start(in)
DoStash == \E kind \in {"capsule", "other"} : Stash(kind)
DoConstruct == \E g \in GuardIds, in \in LifecycleInputs : Construct(g, in)
DoMoveConstruct == \E g, other \in GuardIds : MoveConstruct(g, other)
DoDestroy == \E g \in GuardIds : Destroy(g)
DoImport == \E name \in ModuleNames, body \in InitBodies : Import(name, body)

\* The host uses the whole interface.
Next ==
    \/ DoRegister
    \/ DoStart
    \/ Stop
    \/ GetInternals
    \/ DoStash
    \/ DoConstruct
    \/ DoMoveConstruct
    \/ DoDestroy

Spec == Init /\ [][Next]_vars

\* The host starts and stops the interpreter through guards only.
NextGuarded ==
    \/ DoRegister
    \/ GetInternals
    \/ DoStash
    \/ DoConstruct
    \/ DoMoveConstruct
    \/ DoDestroy

SpecGuard == Init /\ [][NextGuarded]_vars

\* The host starts the interpreter with any arguments when it is not running,
\* and stops it.
NextArgv ==
    \/ DoStartAny
    \/ Stop

SpecArgv == Init /\ [][NextArgv]_vars

\* The host registers modules, starts the interpreter, imports the modules
\* and stops it.
NextImport ==
    \/ DoRegister
    \/ DoStart
    \/ DoImport
    \/ Stop

SpecImport == Init /\ [][NextImport]_vars

(***************************************************************************)
(* Properties                                                              *)
(***************************************************************************)
\* The step is host operation op returning or raising.
Step(op) == nops' = nops + 1 /\ lastOp'.op = op

OwningGuards == {g \in GuardIds : gstate[g] = "live" /\ is_valid[g]}
NoGuardYet == \A g \in GuardIds : gstate[g] = "none"

\* C1: a start made while the interpreter is not initialized succeeds and
\* leaves it running; a start made while it is running raises IllegalState,
\* calls neither Py_InitializeEx nor set_interpreter_argv, and leaves the
\* interpreter running.
C1_SecondStartFails ==
    [][Step("start") =>
        IF initialized
        THEN /\ lastOp'.result = "IllegalState"
             /\ initCalls' = initCalls
             /\ encodeCalls' = encodeCalls
             /\ initialized'
        ELSE /\ lastOp'.result = "ok"
             /\ initialized']_vars

\* Two starts in a row failed after the first one succeeded.
C1_Witness ==
    /\ lastOp.op = "start"
    /\ lastOp.result = "IllegalState"
    /\ nops = 3
    /\ initCalls = 1
    /\ stopCalls = 0
    /\ NoGuardYet
    /\ Len(inittab) = 0
    /\ next_obj = 1
    /\ builtins_id = "absent"
    /\ initialized

\* C2: a register made while the interpreter is running raises IllegalState
\* and leaves the built-in-module table as it was; one made while it is not
\* running, the append succeeding, returns normally with the name in the
\* table; the table never loses a name, and a start that brings the
\* interpreter up makes every name of the table importable.
C2_RegisterOnlyBeforeStart ==
    [][/\ (Step("register") /\ initialized) =>
            (lastOp'.result = "IllegalState" /\ inittab' = inittab)
       /\ (Step("register") /\ ~initialized /\ lastOp'.arg.memOK) =>
            (lastOp'.result = "ok" /\ lastOp'.arg.name \in Range(inittab'))
       /\ Range(inittab) \subseteq Range(inittab')
       /\ (~initialized /\ initialized') => Range(inittab) \subseteq builtin_modules'
      ]_vars

\* m1 was registered before the start and is importable; registering m2 in
\* the running interpreter failed.
C2_Witness ==
    /\ initialized
    /\ inittab = <<"m1">>
    /\ "m1" \in builtin_modules
    /\ lastOp.op = "register"
    /\ lastOp.arg.name = "m2"
    /\ lastOp.result = "IllegalState"

\* C3: a stop of a running interpreter leaves it not initialized, a start of
\* an interpreter that is not initialized succeeds whatever came before it,
\* and a register tried while it runs fails: start, stop, start, ... never
\* raises IllegalState.
C3_Restart ==
    [][/\ (Step("stop") /\ initialized) => (~initialized' /\ lastOp'.result = "ok")
       /\ (Step("start") /\ ~initialized) => (initialized' /\ lastOp'.result = "ok")
       /\ (Step("register") /\ initialized) => lastOp'.result = "IllegalState"
      ]_vars

\* start, stop, start, stop, start: the third start succeeded.
C3_Witness ==
    /\ lastOp.op = "start"
    /\ lastOp.result = "ok"
    /\ initialized
    /\ initCalls = 3
    /\ stopCalls = 2
    /\ stopUninit = 0
    /\ nops = 5
    /\ NoGuardYet

\* a was constructed with arguments, b was move-constructed from a, both are
\* destroyed and the host made no other guard.
MovedPairDestroyed(a, b) ==
    /\ a # b
    /\ moved_from[a] = 0
    /\ moved_from[b] = a
    /\ gstate[a] = "dead"
    /\ gstate[b] = "dead"
    /\ \A h \in GuardIds \ {a, b} : gstate[h] = "none"

\* C4: construct a guard, move-construct a second one from it, destroy both
\* in either order: finalize_interpreter ran exactly once, on a running
\* interpreter, and the interpreter is not running afterwards.
C4_MovedPairStopsOnce ==
    \A a, b \in GuardIds :
        MovedPairDestroyed(a, b) =>
            (stopCalls = 1 /\ stopUninit = 0 /\ ~initialized /\ ~crashed)

\* The moved-to guard was destroyed first and the moved-from one last.
C4_Witness ==
    \E a, b \in GuardIds :
        /\ MovedPairDestroyed(a, b)
        /\ lastOp.op = "destroy"
        /\ lastOp.arg.g = a
        /\ initCalls = 1

\* The moved-from guard was destroyed first and the moved-to one last.
C4_WitnessOtherOrder ==
    \E a, b \in GuardIds :
        /\ MovedPairDestroyed(a, b)
        /\ lastOp.op = "destroy"
        /\ lastOp.arg.g = b
        /\ initCalls = 1

\* C5: destroying a guard whose flag a move has cleared calls no
\* finalize_interpreter and leaves the interpreter, the internals cells and
\* objects, and every other guard as they were.
C5_MovedFromDestroyIsNoOp ==
    [][\A g \in GuardIds :
         (Step("destroy") /\ lastOp'.arg.g = g /\ ~is_valid[g]) =>
            /\ stopCalls' = stopCalls
            /\ UNCHANGED <<initialized, builtin_modules, sys_argv, sys_path>>
            /\ UNCHANGED <<internals_pp, cell, allocated, builtins_id>>
            /\ \A h \in GuardIds \ {g} :
                 gstate'[h] = gstate[h] /\ is_valid'[h] = is_valid[h]
      ]_vars

\* A moved-from guard was destroyed while the interpreter runs with an
\* internals object and another guard owns the session.
C5_Witness ==
    \E g \in GuardIds :
        /\ lastOp.op = "destroy"
        /\ lastOp.arg.g = g
        /\ gstate[g] = "dead"
        /\ ~is_valid[g]
        /\ initialized
        /\ allocated # {}
        /\ OwningGuards # {}

\* C6: move-constructing g from other gives g the flag other had and clears
\* other's flag, whatever flag other had.
C6_MoveTransfersFlag ==
    [][\A g, other \in GuardIds :
         (Step("move") /\ lastOp'.arg.g = g /\ lastOp'.arg.other = other) =>
            (is_valid'[g] = is_valid[other] /\ ~is_valid'[other])
      ]_vars

\* C7: with the interpreter driven through guards only, finalize_interpreter
\* runs at most once per successful start and never on an interpreter that
\* is not initialized.
C7_NoDoubleStop == stopCalls <= initCalls /\ stopUninit = 0

\* C8: with the interpreter driven through guards only, at most one live
\* guard has its flag set.
C8_SingleOwner == Cardinality(OwningGuards) <= 1

\* C9: with the interpreter driven through guards only, the interpreter is
\* not running unless a live guard owns the session.
C9_NotLeftRunning == (OwningGuards = {}) => ~initialized

\* A session was started by a guard, ownership was moved on, and both guards
\* are gone.
C9_Witness ==
    /\ OwningGuards = {}
    /\ initCalls = 1
    /\ stopCalls = 1
    /\ \E a, b \in GuardIds :
         moved_from[b] = a /\ gstate[a] = "dead" /\ gstate[b] = "dead"

\* C10: a start that reaches the argument encoder with argc <= 0 or a null
\* argv makes exactly one set-argv call, with a vector whose single element
\* is a non-null empty string; and no set-argv call ever receives an empty
\* vector or a null element.
C10_EmptyArgvFallback ==
    [][/\ (Step("start") /\ lastOp'.result = "ok"
             /\ (lastOp'.arg.argc <= 0 \/ lastOp'.arg.argv.null)) =>
            /\ setArgvCalls' = setArgvCalls + 1
            /\ Len(sys_argv') = 1
            /\ ~sys_argv'[1].null
            /\ sys_argv'[1].chars = <<>>
       /\ (setArgvCalls' # setArgvCalls) =>
            /\ Len(sys_argv') >= 1
            /\ \A i \in DOMAIN sys_argv' : ~sys_argv'[i].null
      ]_vars

\* The array was given without a positive count.
C10_Witness ==
    /\ lastOp.op = "start"
    /\ lastOp.result = "ok"
    /\ lastOp.arg.argc = 0
    /\ ~lastOp.arg.argv.null
    /\ Len(lastOp.arg.argv.elems) = 2
    /\ sys_argv_set
    /\ Len(sys_argv) = 1

\* A positive count was given with a null array.
C10_WitnessNullArray ==
    /\ lastOp.op = "start"
    /\ lastOp.result = "ok"
    /\ lastOp.arg.argc = 2
    /\ lastOp.arg.argv.null
    /\ sys_argv_set
    /\ Len(sys_argv) = 1

\* The entries the encoder reads from the host array of start arguments in
\* that hold a byte sequence with no valid conversion.
UnconvertibleArgs(in) ==
    {i \in 1 .. in.argc :
        \E k \in DOMAIN in.argv.elems[i] : in.argv.elems[i][k] >= 128}

\* The start arguments in give an array in which exactly one entry cannot be
\* converted and the others can.
OneArgUnconvertible(in) ==
    /\ ~in.argv.null
    /\ in.argc > 0
    /\ Cardinality(UnconvertibleArgs(in)) = 1

\* C11: on a build that converts the arguments (Python 3), a start whose
\* array holds exactly one entry that cannot be converted, at any position,
\* returns normally with the interpreter running, makes no set-argv call and
\* leaves sys.argv unset and sys.path as Py_InitializeEx made it.
C11_ConversionFailureLeavesArgvUnset ==
    [][(Step("start") /\ lastOp'.result = "ok"
          /\ PY_MAJOR_VERSION(py_version) >= 3
          /\ OneArgUnconvertible(lastOp'.arg)) =>
            /\ initialized'
            /\ setArgvCalls' = setArgvCalls
            /\ ~sys_argv_set'
            /\ sys_path' = DefaultPath
      ]_vars

\* On a build whose conversion reports failure (one without
\* HAVE_BROKEN_MBSTOWCS), the statement of C11 holds.
C11_HoldsWhereFailureIsReported ==
    [][(Step("start") /\ lastOp'.result = "ok"
          /\ PY_MAJOR_VERSION(py_version) >= 3
          /\ ~broken_mbstowcs
          /\ OneArgUnconvertible(lastOp'.arg)) =>
            /\ initialized'
            /\ setArgvCalls' = setArgvCalls
            /\ ~sys_argv_set'
            /\ sys_path' = DefaultPath
      ]_vars

\* The step is finalize_interpreter running on an initialized interpreter,
\* called directly or by a guard's destructor.
StopOfRunning ==
    /\ Step("stop") \/ Step("destroy")
    /\ stopCalls' = stopCalls + 1
    /\ initialized

\* The cell stop has to clear: the capsule's cell when the built-in namespace
\* holds a capsule under the internals identifier, else the looked-up cell.
CellToClear == IF builtins_id \in Cells THEN builtins_id ELSE internals_pp

\* C12: in a stop of a running interpreter the cell is chosen from the
\* lookup and the namespace as they were before Py_Finalize, Py_Finalize
\* begins with every cell and every internals object as they were before the
\* call, and when stop returns the chosen cell is null and the object it
\* held is no longer allocated.
C12_ReleaseAfterFinalize ==
    [][StopOfRunning =>
         /\ at_finalize'.captured = CellToClear
         /\ at_finalize'.cell = cell
         /\ at_finalize'.allocated = allocated
         /\ CellToClear # "null" =>
              /\ cell'[CellToClear] = 0
              /\ cell[CellToClear] \notin allocated'
      ]_vars

\* A stop found an internals object, Py_Finalize ran with it allocated, and
\* it is released now.
C12_Witness ==
    /\ lastOp.op = "stop"
    /\ lastOp.result = "ok"
    /\ stopUninit = 0
    /\ at_finalize.captured # "null"
    /\ at_finalize.cell[at_finalize.captured] \in at_finalize.allocated
    /\ at_finalize.cell[at_finalize.captured] \notin allocated
    /\ cell[at_finalize.captured] = 0

\* C13: when a stop of a running interpreter returns, no internals object is
\* allocated and every internals cell is null.
C13_NothingLeftAfterStop ==
    [][StopOfRunning => (allocated' = {} /\ \A c \in Cells : cell'[c] = 0)]_vars

\* C15: a stop of a running interpreter whose built-in namespace holds a
\* capsule under the internals identifier clears the capsule's cell and
\* leaves the other cell as it was; without such a capsule it clears the
\* looked-up cell, when there is one, and leaves the other cell as it was.
C15_CapsuleTakesPrecedence ==
    [][StopOfRunning =>
         IF builtins_id \in Cells
         THEN /\ cell'[builtins_id] = 0
              /\ \A c \in Cells \ {builtins_id} : cell'[c] = cell[c]
         ELSE internals_pp # "null" =>
                /\ cell'[internals_pp] = 0
                /\ \A c \in Cells \ {internals_pp} : cell'[c] = cell[c]
      ]_vars

\* The lookup gave the layer's own cell, the namespace held a capsule of
\* another cell, and the capsule's cell is the one stop cleared.
C15_Witness ==
    /\ lastOp.op = "stop"
    /\ lastOp.result = "ok"
    /\ internals_pp = "local"
    /\ at_finalize.captured = "foreign"
    /\ at_finalize.cell["foreign"] # 0
    /\ cell["foreign"] = 0

\* The namespace held no capsule and the looked-up cell is the one stop
\* cleared.
C15_WitnessNotCapsule ==
    /\ lastOp.op = "stop"
    /\ lastOp.result = "ok"
    /\ lastOp.arg = NoArg
    /\ nops = 4
    /\ stopCalls = 1
    /\ at_finalize.captured = "local"
    /\ at_finalize.cell["local"] # 0
    /\ cell["local"] = 0
    /\ inittab = <<>>

\* C16: on a build without PySys_SetArgvEx, a start that calls the plain
\* set-argv primitive leaves the search path as it was before the script
\* directory was prepended when add_current_dir_to_path is false, and with
\* the script directory in front of it, nothing removed, when it is true.
C16_OldVersionsPathRestored ==
    [][(/\ Step("start")
        /\ lastOp'.result = "ok"
        /\ LacksSetArgvEx(py_version)
        /\ setArgvCalls' = setArgvCalls + 1)
       => sys_path' = IF lastOp'.arg.add THEN <<ScriptDir>> \o DefaultPath
                      ELSE DefaultPath
      ]_vars

\* The half of C16 about add_current_dir_to_path = true holds.
C16_NothingRemovedWhenAdded ==
    [][(/\ Step("start")
        /\ lastOp'.result = "ok"
        /\ LacksSetArgvEx(py_version)
        /\ setArgvCalls' = setArgvCalls + 1
        /\ lastOp'.arg.add)
       => sys_path' = <<ScriptDir>> \o DefaultPath
      ]_vars

\* C17: a register made while the interpreter is not initialized whose append
\* fails raises ResourceExhausted and leaves the table as it was; a register
\* made while it is running raises IllegalState and leaves the table as it
\* was whether the append would have succeeded or failed, the append not
\* being reached.
C17_AppendFailure ==
    [][Step("register") =>
         /\ (~initialized /\ ~lastOp'.arg.memOK) =>
              (lastOp'.result = "ResourceExhausted" /\ inittab' = inittab)
         /\ initialized =>
              (lastOp'.result = "IllegalState" /\ inittab' = inittab)
      ]_vars

\* An append failed before the interpreter was started.
C17_Witness ==
    /\ lastOp.op = "register"
    /\ lastOp.result = "ResourceExhausted"
    /\ ~lastOp.arg.memOK
    /\ ~initialized
    /\ initCalls = 0

\* A register whose append would have failed was made while running.
C17_WitnessRunning ==
    /\ lastOp.op = "register"
    /\ lastOp.result = "IllegalState"
    /\ ~lastOp.arg.memOK
    /\ initialized

\* C19: constructing a guard while the interpreter is running raises
\* IllegalState, produces no guard, calls no stop and leaves the interpreter
\* running; destroying an owning guard while the interpreter is running
\* makes one stop call, leaves the interpreter not running and ends the
\* guard.
C19_SecondGuardRejected ==
    [][/\ (Step("construct") /\ initialized) =>
            /\ lastOp'.result = "IllegalState"
            /\ UNCHANGED guardVars
            /\ UNCHANGED <<stopCalls, stopUninit>>
            /\ initialized'
       /\ \A g \in GuardIds :
            (Step("destroy") /\ lastOp'.arg = [g |-> g] /\ g \in OwningGuards
               /\ initialized) =>
              /\ stopCalls' = stopCalls + 1
              /\ ~initialized'
              /\ gstate'[g] = "dead"
      ]_vars

\* A second construction has just failed while a guard owns the running
\* interpreter.
C19_Witness ==
    /\ lastOp.op = "construct"
    /\ lastOp.result = "IllegalState"
    /\ OwningGuards # {}
    /\ initialized
    /\ stopCalls = 0
    /\ \A g \in GuardIds : moved_from[g] = 0

\* The only guard there is was destroyed while it owned the running
\* interpreter, and one stop call was made.
C19_WitnessOwnerStops ==
    /\ lastOp.op = "destroy"
    /\ nops = 3
    /\ initCalls = 1
    /\ stopCalls = 1
    /\ stopUninit = 0
    /\ ~initialized
    /\ {g \in GuardIds : gstate[g] # "none"} = {1}
    /\ inittab = <<>>
    /\ allocated = {}
    /\ builtins_id = "absent"
    /\ internals_pp = "null"

\* Every interpreter started so far was stopped, each stop on a running one.
StoppedAfterRunning == initCalls >= 1 /\ stopCalls = initCalls /\ stopUninit = 0

\* C20: once every started interpreter has been stopped again, a register
\* whose append succeeds returns normally and appends its entry to the
\* table, and an interpreter that is running was given every entry of the
\* table.
C20_RegisterAfterStop ==
    [][/\ (Step("register") /\ StoppedAfterRunning /\ lastOp'.arg.memOK) =>
            /\ lastOp'.result = "ok"
            /\ inittab' = Append(inittab, lastOp'.arg.name)
       /\ ((Step("start") \/ Step("construct")) /\ lastOp'.result = "ok") =>
            builtin_modules' = Range(inittab)
      ]_vars

\* A module was registered after a start and a stop.
C20_Witness ==
    /\ lastOp.op = "register"
    /\ lastOp.result = "ok"
    /\ StoppedAfterRunning
    /\ ~initialized
    /\ nops = 3
    /\ Len(inittab) = 1

\* The second interpreter started was given the registered module.
C20_WitnessNextStart ==
    /\ lastOp.op = "start"
    /\ lastOp.result = "ok"
    /\ nops = 4
    /\ initCalls = 2
    /\ stopCalls = 1
    /\ stopUninit = 0
    /\ Len(inittab) = 1
    /\ builtin_modules = Range(inittab)
    /\ allocated = {}
    /\ internals_pp = "null"

\* C14: whenever the body of a module initializer does not return, the
\* wrapper returns the null handle with ImportError set, and no exception
\* leaves the wrapper.
C14_InitializerFailureIsImportError ==
    [][(Step("import") /\ lastOp'.arg.body # "returns") =>
         /\ wrapper_result' = [returned |-> TRUE, handle |-> "null",
                               error |-> "ImportError"]
         /\ lastOp'.result = "ImportError"
         /\ ~crashed'
      ]_vars

\* C14 holds of the failures the wrapper has a handler for.
C14_HoldsOfHandledFailures ==
    [][(Step("import") /\ lastOp'.arg.body \in {"error_already_set", "std_exception"}) =>
         /\ wrapper_result' = [returned |-> TRUE, handle |-> "null",
                               error |-> "ImportError"]
         /\ lastOp'.result = "ImportError"
         /\ ~crashed'
      ]_vars

\* The releases of buffer b in the ledger of the last encoder call.
ReleasesOf(b) ==
    {i \in DOMAIN argv_bufs.frees :
        argv_bufs.frees[i].owner = b.owner /\ argv_bufs.frees[i].ii = b.ii}

\* C18: when set_interpreter_argv has returned, each buffer it allocated was
\* released exactly once, by the routine that goes with its allocation, and
\* nothing else was released.
C18_BuffersReleasedOnce ==
    /\ \A b \in argv_bufs.allocs :
         /\ Cardinality(ReleasesOf(b)) = 1
         /\ \A i \in ReleasesOf(b) : Matches(b.by, argv_bufs.frees[i].with)
    /\ \A i \in DOMAIN argv_bufs.frees :
         \E b \in argv_bufs.allocs :
            b.owner = argv_bufs.frees[i].owner /\ b.ii = argv_bufs.frees[i].ii

\* Conversion gave up at the second argument after the first one converted.
C18_Witness ==
    /\ lastOp.op = "start"
    /\ lastOp.result = "ok"
    /\ ~sys_argv_set
    /\ lastOp.arg.argc >= 2
    /\ {b.ii : b \in {x \in argv_bufs.allocs : x.owner = "widened_argv_entries"}} = {1}
    /\ Len(argv_bufs.frees) = 2

\* All of two or more arguments converted, on a build with Py_DecodeLocale.
C18_WitnessAllConverted ==
    /\ lastOp.op = "start"
    /\ lastOp.result = "ok"
    /\ sys_argv_set
    /\ HasDecodeLocale(py_version)
    /\ Len(sys_argv) >= 2
    /\ Cardinality({x \in argv_bufs.allocs : x.by = "PyMem_RawMalloc"}) = Len(sys_argv)

\* The fallback vector was made and released.
C18_WitnessFallback ==
    /\ lastOp.op = "start"
    /\ lastOp.result = "ok"
    /\ Buf("argv_guard", 0, "new[]") \in argv_bufs.allocs
    /\ Buf("argv_inner_guard", 0, "new[]") \in argv_bufs.allocs
    /\ PY_MAJOR_VERSION(py_version) >= 3
    /\ Len(argv_bufs.frees) = 4

====
